---- MODULE Spec2Model ----
(***************************************************************************)
(* Model of src/streamlit_app.py: Step 4 (the per-building resolve loop    *)
(* with the roster match and the cached reverse geocoding), the extra pass *)
(* over OSM address nodes, the route sorting and the duplicate removal.    *)
(*                                                                         *)
(* Coordinates are integers in units of 1e-6 degree; a centroid is a       *)
(* record [x |-> lng, y |-> lat].  Strings of the program are strings.     *)
(***************************************************************************)
EXTENDS Integers, Sequences, FiniteSets, TLC

VARIABLES
    buildings,      \* buildings_gdf as Step 3 leaves it, with osm_address composed
    df,             \* the roster read from the CSV, or not loaded
    route_line,     \* the drawn route line, or absent
    start_point,    \* the first drawn marker, or absent
    pc,             \* position of the script
    i,              \* number of buildings the resolve loop has finished
    address_cache,  \* the dict address_cache: key -> stored string
    rows,           \* the resolved table: one row per building, then the address nodes
    order,          \* the current row order of buildings_gdf, as indexes into rows
    sorted_by,      \* which sort produced the order: "none", "route" or "fallback"
    events          \* history: cache lookups, external calls, stores and faults

vars == <<buildings, df, route_line, start_point, pc, i, address_cache, rows,
          order, sorted_by, events>>

-----------------------------------------------------------------------------
(* Bounds of the model *)

MaxFeatures == 2
MaxRoster == 2
MaxNodes == 1

-----------------------------------------------------------------------------
(* Inputs *)

\* Tag-derived addresses: osm_address after fillna, concatenation and strip.
TagAddrs == {"", "12 Elm St", "9 Oak Ave"}

\* Centroids of the footprints.  The first two round to the same 5-decimal key.
Centroids == {[x |-> 0, y |-> 0], [x |-> 4, y |-> 0], [x |-> 12, y |-> 0]}

\* Step 3 keeps only valid, non-empty polygons: is_empty is never true in Step 4.
Features == [osm_address : TagAddrs, centroid : Centroids, is_empty : {FALSE}]

\* Rows of the CSV whose address column holds text.
RosterEntries ==
    {[address |-> "12 Elm St", member_name |-> "Ann", comment |-> "c1"],
     [address |-> "12 Elm St", member_name |-> "Bob", comment |-> "c2"],
     [address |-> "14 Elm St", member_name |-> "Dee", comment |-> "c3"]}

\* A CSV whose address column holds only numbers is read as numbers, not text.
NumericCell == "<int64>"
NumericEntries == {[address |-> NumericCell, member_name |-> "Eve", comment |-> "c4"]}

SeqsUpTo(S, n) == UNION {[1..k -> S] : k \in 0..n}

Rosters ==
    {[loaded |-> FALSE, rows |-> <<>>]}
    \cup {[loaded |-> TRUE, rows |-> r] : r \in SeqsUpTo(RosterEntries, MaxRoster)}
    \cup {[loaded |-> TRUE, rows |-> r] : r \in [1..1 -> NumericEntries]}

\* What one call of the rate-limited reverse geocoder can do: return a location
\* with an address, return None (no result), or raise.
GeocodeOutcomes ==
    {[kind |-> "loc", address |-> "5 Bay Ct", e |-> ""],
     [kind |-> "loc", address |-> "9 Oak Ave", e |-> ""],
     [kind |-> "none", address |-> "", e |-> ""],
     [kind |-> "raise", address |-> "", e |-> "timed out"]}

\* A drawn route line: a straight line along y = 0 from x0 to x1.
RouteLines ==
    {[present |-> FALSE, x0 |-> 0, x1 |-> 0],
     [present |-> TRUE, x0 |-> 0, x1 |-> 20],
     [present |-> TRUE, x0 |-> 20, x1 |-> 4]}

StartPoints ==
    {[present |-> FALSE, x |-> 0, y |-> 0],
     [present |-> TRUE, x |-> 12, y |-> 0]}

\* polygon.centroid of the drawn turf polygon.
PolygonCentroid == [x |-> 2, y |-> 0]

-----------------------------------------------------------------------------
(* Helpers *)

Min(S) == CHOOSE m \in S : \A n \in S : m <= n

\* f"{v:.5f}" of a coordinate: v rounded to 5 decimals, here in units of 1e-5.
Round5(v) == (v + 5) \div 10

\* key = f"{geom.centroid.y:.5f},{geom.centroid.x:.5f}"
CacheKey(c) == <<Round5(c.y), Round5(c.x)>>

ScoreCutoff == 85

\* The scorer of process.extractOne (rapidfuzz WRatio) on the strings above:
\* identical strings score 100, "12 Elm St"/"14 Elm St" differ in one character
\* of nine (88.9), the others share almost nothing.
Score(a, b) ==
    IF a = b THEN 100
    ELSE IF {a, b} = {"12 Elm St", "14 Elm St"} THEN 88
    ELSE 22

\* process.extractOne(query, choices, score_cutoff): the index of the best
\* choice at or above the cutoff, the first one among equal scores; 0 is None.
ExtractOne(query, choices) ==
    LET ok == {k \in 1..Len(choices) : Score(query, choices[k]) >= ScoreCutoff}
        best == {k \in ok : \A j \in ok : Score(query, choices[j]) <= Score(query, choices[k])}
    IN  IF ok = {} THEN 0 ELSE Min(best)

-----------------------------------------------------------------------------
(* Step 4: the resolve loop *)

\* The roster row the match step selects for addr, 0 when there is none:
\* extractOne over df["address"], then df[df["address"] == matched_address].head(1).
MatchedRow(addr) ==
    IF df.loaded /\ addr # ""
    THEN LET choices == [k \in 1..Len(df.rows) |-> df.rows[k].address]
             idx == ExtractOne(addr, choices)
         IN  IF idx = 0 THEN 0
             ELSE Min({k \in 1..Len(df.rows) : df.rows[k].address = choices[idx]})
    ELSE 0

\* extractOne raises a TypeError on a choice that is not text.
MatchRaises(addr) ==
    /\ df.loaded
    /\ addr # ""
    /\ \E k \in 1..Len(df.rows) : df.rows[k].address = NumericCell

\* Variant of Branch with a slip: the reverse-geocode test comes before the roster-match test.
BranchReverseFirst(addr, m) ==
    IF addr # "" THEN "reverse"
    ELSE IF df.loaded /\ m # 0 THEN "match"
    ELSE "none"

\* The if / elif / else of the loop body; m is the matched roster row or 0.
Branch(addr, m) ==
    IF addr # "" /\ df.loaded /\ m # 0 THEN "match"
    ELSE IF addr # "" THEN "reverse"
    ELSE "none"

\* Variant of FaultRecord with a slip: the note drops the exception's text.
FaultRecordBare(row, e) ==
    [address |-> "Fallback: " \o (IF row.osm_address # "" THEN row.osm_address ELSE "N/A"),
     reverse_address |-> row.osm_address,
     member_name |-> "", comment |-> "",
     flag |-> "fallback",
     note |-> "Exception",
     centroid |-> row.centroid]

\* The record the except handler leaves for a building.
FaultRecord(row, e) ==
    [address |-> "Fallback: " \o (IF row.osm_address # "" THEN row.osm_address ELSE "N/A"),
     reverse_address |-> row.osm_address,
     member_name |-> "", comment |-> "",
     flag |-> "fallback",
     note |-> "Exception: " \o e,
     centroid |-> row.centroid]

\* History only: a cache hit, an external call (e: what it did), a store into the
\* cache, or a fault reaching the except handler (e: its description).
Event(op, n, key, e) == [op |-> op, feat |-> n, key |-> key, e |-> e]

\* One iteration of the loop for building n, with loc what the geocoder does if
\* it is called: the appended record, the cache afterwards and what happened.
ResolveRow(n, row, loc) ==
    LET addr == row.osm_address
        key == CacheKey(row.centroid)
        m == MatchedRow(addr)
        base == [address |-> "", reverse_address |-> addr, member_name |-> "",
                 comment |-> "", flag |-> "", note |-> "", centroid |-> row.centroid]
    IN  IF MatchRaises(addr)
        THEN [rec |-> FaultRecord(row, "TypeError"),
              cache |-> address_cache,
              ev |-> <<Event("raise", n, key, "TypeError")>>]
        ELSE IF Branch(addr, m) = "match"
        THEN [rec |-> [base EXCEPT !.address = addr,
                                   !.member_name = df.rows[m].member_name,
                                   !.comment = df.rows[m].comment,
                                   !.flag = "match",
                                   !.note = "Matched from CSV"],
              cache |-> address_cache,
              ev |-> <<>>]
        ELSE IF Branch(addr, m) = "reverse"
        THEN IF key \in DOMAIN address_cache
             THEN [rec |-> [base EXCEPT !.address = address_cache[key],
                                        !.flag = "reverse",
                                        !.note = "Reverse geocoded"],
                   cache |-> address_cache,
                   ev |-> <<Event("hit", n, key, "")>>]
             ELSE IF row.is_empty
             THEN [rec |-> [base EXCEPT !.address = "Invalid geometry",
                                        !.flag = "reverse",
                                        !.note = "Reverse geocoded"],
                   cache |-> (key :> "Invalid geometry") @@ address_cache,
                   ev |-> <<Event("store", n, key, "")>>]
             ELSE IF loc.kind = "raise"
             THEN [rec |-> FaultRecord(row, loc.e),
                   cache |-> address_cache,
                   ev |-> <<Event("call", n, key, loc.kind), Event("raise", n, key, loc.e)>>]
             ELSE LET resolved == IF loc.kind = "loc" THEN loc.address ELSE "Unknown"
                  IN  [rec |-> [base EXCEPT !.address = resolved,
                                            !.flag = "reverse",
                                            !.note = "Reverse geocoded"],
                       cache |-> (key :> resolved) @@ address_cache,
                       ev |-> <<Event("call", n, key, loc.kind), Event("store", n, key, "")>>]
        ELSE [rec |-> [base EXCEPT !.address = "No address",
                                   !.flag = "error",
                                   !.note = "No address data or building outline"],
              cache |-> address_cache,
              ev |-> <<>>]

\* for i, (_, row) in enumerate(buildings_gdf.iterrows()): one building.
ResolveNext ==
    /\ pc = "resolve"
    /\ i < Len(buildings)
    /\ \E loc \in GeocodeOutcomes :
         LET out == ResolveRow(i + 1, buildings[i + 1], loc)
         IN  /\ rows' = Append(rows, out.rec)
             /\ address_cache' = out.cache
             /\ events' = events \o out.ev
    /\ i' = i + 1
    /\ pc' = IF i + 1 = Len(buildings) THEN "nodes" ELSE "resolve"
    /\ UNCHANGED <<buildings, df, route_line, start_point, order, sorted_by>>

-----------------------------------------------------------------------------
(* The extra pass over OSM address nodes *)

\* Address nodes features_from_polygon can return: full_addr composed and stripped.
Nodes == {[full_addr |-> "9 Oak Ave", centroid |-> [x |-> 8, y |-> 0]]}

NodeRow(node) ==
    [address |-> node.full_addr, reverse_address |-> node.full_addr,
     member_name |-> "", comment |-> "",
     flag |-> "osm_node", note |-> "OSM address node fallback",
     centroid |-> node.centroid]

\* existing_addrs: every address and reverse_address of the resolved table.
ExistingAddrs(table) ==
    {table[k].address : k \in 1..Len(table)}
    \cup {table[k].reverse_address : k \in 1..Len(table)}

\* filtered_nodes turned into rows, in the order the source returned them.
ExtraRows(table, nodes) ==
    LET Fresh(node) == node.full_addr \notin ExistingAddrs(table)
        kept == SelectSeq(nodes, Fresh)
    IN  [k \in 1..Len(kept) |-> NodeRow(kept[k])]

\* The whole try block: the query may raise (a warning, nothing appended), or
\* return nodes, of which those with an address not yet in the table are appended.
NodePass ==
    /\ pc = "nodes"
    /\ \/ rows' = rows
       \/ \E nodes \in SeqsUpTo(Nodes, MaxNodes) : rows' = rows \o ExtraRows(rows, nodes)
    /\ order' = [k \in 1..Len(rows') |-> k]
    /\ pc' = "sort"
    /\ UNCHANGED <<buildings, df, route_line, start_point, i, address_cache,
                   sorted_by, events>>

-----------------------------------------------------------------------------
(* Route sorting *)

Clamp(v, lo, hi) == IF v < lo THEN lo ELSE IF v > hi THEN hi ELSE v

\* route_line.project(pt): the distance along the line, from its first point,
\* of the point of the line nearest to pt.
Project(line, pt) ==
    IF line.x0 <= line.x1
    THEN Clamp(pt.x, line.x0, line.x1) - line.x0
    ELSE line.x0 - Clamp(pt.x, line.x1, line.x0)

\* The square of centroid.distance(start_pt); it orders as the distance does.
Distance2(a, b) == (a.x - b.x) * (a.x - b.x) + (a.y - b.y) * (a.y - b.y)

\* fallback_sort's start_pt: the start marker, else the polygon's centroid.
StartPt ==
    IF start_point.present THEN [x |-> start_point.x, y |-> start_point.y]
    ELSE PolygonCentroid

\* Variant of SortKey with a slip: a start point takes precedence over the route line.
SortKeyStartFirst(mode, row) ==
    IF mode = "route" /\ ~start_point.present THEN Project(route_line, row.centroid)
    ELSE Distance2(row.centroid, StartPt)

\* The column the table is sorted by.
SortKey(mode, row) ==
    IF mode = "route" THEN Project(route_line, row.centroid)
    ELSE Distance2(row.centroid, StartPt)

\* sort_values with the default, unstable sort: any ascending order of the rows.
SortedOrders(table, mode) ==
    {p \in Permutations(1..Len(table)) :
        \A a, b \in 1..Len(table) :
            a < b => SortKey(mode, table[p[a]]) <= SortKey(mode, table[p[b]])}

\* Sort by projection when a route line exists and projecting does not raise,
\* else fallback_sort.
RouteSort ==
    /\ pc = "sort"
    /\ \E mode \in {"route", "fallback"} :
         /\ mode = "route" => route_line.present
         /\ sorted_by' = mode
         /\ order' \in SortedOrders(rows, mode)
    /\ pc' = "dedupe"
    /\ UNCHANGED <<buildings, df, route_line, start_point, i, address_cache,
                   rows, events>>

-----------------------------------------------------------------------------
(* Duplicate removal *)

\* unique_addr: address when it is not empty, else reverse_address.
UniqueAddr(row) == IF row.address # "" THEN row.address ELSE row.reverse_address

\* drop_duplicates(subset=['unique_addr'], keep='first') on the current order.
DropDuplicatesOf(table, ord) ==
    LET First(k) == \A j \in 1..(k - 1) : UniqueAddr(table[ord[j]]) # UniqueAddr(table[ord[k]])
        keep == {k \in 1..Len(ord) : First(k)}
        Nth(n) == CHOOSE k \in keep : Cardinality({j \in keep : j < k}) = n - 1
    IN  [n \in 1..Cardinality(keep) |-> ord[Nth(n)]]

DropDuplicates ==
    /\ pc = "dedupe"
    /\ order' = DropDuplicatesOf(rows, order)
    /\ pc' = "done"
    /\ UNCHANGED <<buildings, df, route_line, start_point, i, address_cache,
                   rows, sorted_by, events>>

-----------------------------------------------------------------------------
(* Specifications *)

\* Step 4 runs only when there is at least one building.
InitWith(feats, rosters, lines, starts) ==
    /\ buildings \in SeqsUpTo(feats, MaxFeatures)
    /\ df \in rosters
    /\ route_line \in lines
    /\ start_point \in starts
    /\ pc = IF Len(buildings) = 0 THEN "done" ELSE "resolve"
    /\ i = 0
    /\ address_cache = <<>>
    /\ rows = <<>>
    /\ order = <<>>
    /\ sorted_by = "none"
    /\ events = <<>>

NoRoster == [loaded |-> FALSE, rows |-> <<>>]

\* The whole script, over buildings with or without a tag address and a roster
\* that is absent or holds one row.
Init ==
    InitWith({f \in Features : f.osm_address \in {"", "12 Elm St"} /\ f.centroid.x # 4},
             {NoRoster} \cup {r \in Rosters : r.loaded /\ Len(r.rows) = 1
                                              /\ r.rows[1].member_name = "Ann"},
             RouteLines, StartPoints)

Next == ResolveNext \/ NodePass \/ RouteSort \/ DropDuplicates

Spec == Init /\ [][Next]_vars

InitResolve ==
    InitWith(Features, Rosters, {[present |-> FALSE, x0 |-> 0, x1 |-> 0]},
             {[present |-> FALSE, x |-> 0, y |-> 0]})

NextResolve == ResolveNext

SpecResolve == InitResolve /\ [][NextResolve]_vars

-----------------------------------------------------------------------------
(* Vocabulary of the claims *)

\* The outcome kind each flag of the script stands for.
OutcomeKind(flag) ==
    CASE flag = "match" -> "matched"
      [] flag = "reverse" -> "reverse-geocoded"
      [] flag = "osm_node" -> "osm-only"
      [] flag = "error" -> "no-address"
      [] flag = "fallback" -> "error"
      [] OTHER -> "none"

Placeholders == {"Unknown", "Invalid geometry", "No address"}

EventsOf(n, ops) == {k \in DOMAIN events : events[k].feat = n /\ events[k].op \in ops}

CallsOfKey(key) == {k \in DOMAIN events : events[k].op = "call" /\ events[k].key = key}

TextRoster == df.loaded /\ \A k \in 1..Len(df.rows) : df.rows[k].address # NumericCell

InRoster(addr) == TextRoster /\ \E k \in 1..Len(df.rows) : df.rows[k].address = addr

FuzzyOnly(addr) ==
    /\ TextRoster
    /\ ~InRoster(addr)
    /\ \E k \in 1..Len(df.rows) : Score(addr, df.rows[k].address) >= ScoreCutoff

Unmatched(addr) ==
    \/ ~df.loaded
    \/ TextRoster /\ \A k \in 1..Len(df.rows) : Score(addr, df.rows[k].address) < ScoreCutoff

Kept == {order[p] : p \in 1..Len(order)}

-----------------------------------------------------------------------------
(* Claims *)

\* C1: a building whose non-empty tag address equals a roster address is
\* `matched`, its resolved address is that roster string, and no reverse-geocode
\* call is issued for it, whatever the cache holds.
C1_ExactMatch ==
    \A n \in 1..i :
        LET addr == buildings[n].osm_address
        IN  (addr # "" /\ InRoster(addr)) =>
                /\ OutcomeKind(rows[n].flag) = "matched"
                /\ \E k \in 1..Len(df.rows) :
                       df.rows[k].address = addr /\ rows[n].address = df.rows[k].address
                /\ EventsOf(n, {"call"}) = {}

\* C1 witness: an exact roster match resolved while the cache already holds the
\* building's key.
C1_Witness ==
    \E n \in 1..i :
        /\ buildings[n].osm_address # ""
        /\ InRoster(buildings[n].osm_address)
        /\ CacheKey(buildings[n].centroid) \in DOMAIN address_cache
        /\ rows[n].flag = "match"

\* C2: the external reverse geocoder is called at most once per cache key: after
\* the first call for a key, success or failure, no lookup of it calls again.
C2_OneCallPerKey ==
    \A k \in DOMAIN events :
        events[k].op = "call" => CallsOfKey(events[k].key) = {k}

\* C3: a fault of the matching or geocoding step becomes that building's `error`
\* record with the fault description in its note, the loop goes on, and there is
\* one record per building, in building order.
C3_FaultsCaught ==
    /\ Len(rows) = i
    /\ pc # "resolve" => i = Len(buildings)
    /\ \A n \in 1..i :
           /\ rows[n].reverse_address = buildings[n].osm_address
           /\ rows[n].centroid = buildings[n].centroid
    /\ \A k \in DOMAIN events :
           events[k].op = "raise" =>
               /\ events[k].feat <= i
               /\ OutcomeKind(rows[events[k].feat].flag) = "error"
               /\ rows[events[k].feat].note = "Exception: " \o events[k].e

\* C3 witness: the first building faulted and the second one was resolved after it.
C3_Witness ==
    /\ i = 2
    /\ EventsOf(1, {"raise"}) # {}
    /\ rows[1].flag = "fallback"
    /\ rows[2].flag # "fallback"

\* C4: a building with a non-empty tag address and no roster match is
\* `osm-only`, its resolved address is the tag address, holder and note are
\* empty, and it causes no reverse-geocode call and no cache entry.
C4_UnmatchedTagged ==
    \A n \in 1..i :
        LET addr == buildings[n].osm_address
        IN  (addr # "" /\ Unmatched(addr)) =>
                /\ OutcomeKind(rows[n].flag) = "osm-only"
                /\ rows[n].address = addr
                /\ rows[n].member_name = "" /\ rows[n].comment = ""
                /\ EventsOf(n, {"call", "store"}) = {}

\* C5: a building without tag address is looked up through the geocode cache
\* and, when the lookup succeeds, is `reverse-geocoded` with the cache result;
\* two such buildings with the same key cause exactly one external call and get
\* the same resolved address.
C5_UntaggedGeocoded ==
    \A n \in 1..i :
        LET key == CacheKey(buildings[n].centroid)
        IN  buildings[n].osm_address = "" =>
                /\ EventsOf(n, {"hit", "call"}) # {}
                /\ (key \in DOMAIN address_cache /\ address_cache[key] \notin Placeholders) =>
                       /\ OutcomeKind(rows[n].flag) = "reverse-geocoded"
                       /\ rows[n].address = address_cache[key]
                /\ \A m \in 1..i :
                       (m # n /\ buildings[m].osm_address = ""
                            /\ CacheKey(buildings[m].centroid) = key) =>
                           /\ Cardinality(CallsOfKey(key)) = 1
                           /\ rows[m].address = rows[n].address

\* C6: a fuzzy-only roster match is `matched`, its resolved address is the
\* roster's stored address, and holder and note are those of the matching entry.
C6_FuzzyMatch ==
    \A n \in 1..i :
        LET addr == buildings[n].osm_address
            m == MatchedRow(addr)
        IN  (addr # "" /\ FuzzyOnly(addr)) =>
                /\ OutcomeKind(rows[n].flag) = "matched"
                /\ rows[n].address = df.rows[m].address
                /\ rows[n].member_name = df.rows[m].member_name
                /\ rows[n].comment = df.rows[m].comment

\* C7: after a reverse-geocode lookup failure (a fault or an empty result) the
\* record is `error` or `no-address` with an empty resolved address and a note,
\* never `reverse-geocoded`, and no placeholder is cached as an address.
C7_LookupFailure ==
    \A k \in DOMAIN events :
        (events[k].op = "call" /\ events[k].e \in {"none", "raise"}) =>
            LET n == events[k].feat
            IN  n <= i =>
                    /\ OutcomeKind(rows[n].flag) \in {"error", "no-address"}
                    /\ rows[n].address = ""
                    /\ rows[n].note # ""
                    /\ events[k].key \in DOMAIN address_cache =>
                           address_cache[events[k].key] \notin Placeholders

\* C8: two buildings that both lack any address and have distinct rounded
\* centroids have distinct dedupe keys, so both are in the deduplicated output.
C8_NoAddressKept ==
    pc = "done" =>
        \A a, b \in 1..Len(rows) :
            (/\ rows[a].reverse_address = "" /\ rows[a].flag = "error"
             /\ rows[b].reverse_address = "" /\ rows[b].flag = "error"
             /\ CacheKey(rows[a].centroid) # CacheKey(rows[b].centroid))
                => (a \in Kept /\ b \in Kept)

\* C9: for every dedupe key the record kept is the first one with that key in
\* resolution order, whatever the sequencing did.
C9_KeepsFirstResolved ==
    pc = "done" =>
        \A a \in Kept :
            \A b \in 1..Len(rows) :
                UniqueAddr(rows[b]) = UniqueAddr(rows[a]) => a <= b

\* C10: when the table was sorted along the route line, the order is monotonic
\* in projected distance, also after the duplicate removal and also with a start
\* point: a stop that projects strictly nearer the line's start comes first.
C10_RouteMonotonic ==
    (pc \in {"dedupe", "done"} /\ sorted_by = "route") =>
        \A a, b \in 1..Len(order) :
            Project(route_line, rows[order[a]].centroid)
                < Project(route_line, rows[order[b]].centroid) => a < b

\* C10 witness: a finished run sorted along the route line, with a start point,
\* in which the sort moved a later row first and a duplicate was removed.
C10_Witness ==
    /\ pc = "done"
    /\ sorted_by = "route"
    /\ start_point.present
    /\ Len(order) >= 2
    /\ Len(order) < Len(rows)
    /\ order[1] > order[2]

====
